---- MODULE Spec2Model ----
(***************************************************************************)
(* stream-compare: comparison of the output of two event-emitting streams  *)
(* (streamCompare and makeIncremental), as a state machine.  One action is *)
(* one turn of the event loop: a stream emitting an event (with every      *)
(* listener the emit calls), a timer or nextTick callback, or a call of    *)
(* the promise's checkpoint()/end().                                       *)
(***************************************************************************)
EXTENDS Integers, Sequences, FiniteSets, TLC

\* ------------------------------------------------------------------ bounds
\* Largest number of payloads a stream delivers.
MaxPayloads == 2
\* Largest number of payloads a stream delivers where fairness is assumed.
MaxFairPayloads == 1

Streams == {1, 2}
Other(i) == 3 - i

\* ------------------------------------------------------- program constants
\* DEFAULT_OPTIONS.endEvents and DEFAULT_OPTIONS.events
endEvents == {"end", "error"}
events == {"close", "end", "error"}
ReadPolicy == {"flowing", "least", "none"}
CompareType == {"checkpoint", "incremental", "last"}

\* ---------------------------------------------------------------- values
\* Payloads: "a" is a one-character string, "X" is a one-byte Buffer, "N" is
\* a value that is neither (a number).
TextPayloads == {"a"}
BufferPayloads == {"X"}
OtherPayloads == {"N"}
ConcatPayloads == TextPayloads \cup BufferPayloads
Payloads == ConcatPayloads \cup OtherPayloads
TypeOf(p) == IF p \in TextPayloads THEN "str"
             ELSE IF p \in BufferPayloads THEN "buf"
             ELSE "other"

\* A data value: undefined, a string, a Buffer or (objectMode) an Array.
Undefined == [k |-> "undef", v |-> <<>>]
Len0(val) == IF val.k = "undef" THEN 0 ELSE Len(val.v)
\* slice(0, n) that keeps everything, and slice(n) that drops one element.
SliceToAll(val, n) == val
SliceFromOne(val, n) == [k |-> val.k, v |-> SubSeq(val.v, 2, Len(val.v))]
\* values.slice(0, n) and values.slice(n)
SliceTo(val, n) == [k |-> val.k, v |-> SubSeq(val.v, 1, n)]
SliceFrom(val, n) == [k |-> val.k, v |-> SubSeq(val.v, n + 1, Len(val.v))]

\* The error object stream i passes to its 'error' listeners.
ErrorOf(i) == IF i = 1 THEN "E1" ELSE "E2"
ArgsOf(i, name) == IF name = "error" THEN <<ErrorOf(i)>> ELSE <<>>

\* The outcome of calling a comparison function.
None == [kind |-> "none", v |-> "undefined"]
\* result === null || result === undefined, negated; and a test that takes
\* every result for an inconclusive one.
ConclusiveNever(r) == FALSE
Conclusive(r) == r.kind # "none"

StreamState == [ended |-> FALSE, events |-> <<>>, data |-> Undefined, totalDataLen |-> 0]

NoListeners == [rec |-> {}, endl |-> {}, abort |-> FALSE, onend |-> FALSE,
                readable |-> 0, data |-> FALSE]

Pending == [st |-> "pending", v |-> "undefined"]

VARIABLES options, script, pc, avail, state, ended, isDone, promise, listeners,
          postEndImmediate, postEndTimeout, tickPending, usedCtl, lastRuns, call

vars == <<options, script, pc, avail, state, ended, isDone, promise, listeners,
          postEndImmediate, postEndTimeout, tickPending, usedCtl, lastRuns, call>>

\* The engine's closure variables together with the streams' buffers, as one
\* value the handlers transform; inv lists the comparisons (by CompareType) a
\* handler has made, pulls the calls of read() it has made.
Eng == [state |-> state, ended |-> ended, isDone |-> isDone, promise |-> promise,
        L |-> listeners, postEndImmediate |-> postEndImmediate,
        postEndTimeout |-> postEndTimeout, avail |-> avail, pc |-> pc, inv |-> <<>>,
        pulls |-> <<>>]

\* ------------------------------------------------------------ the promise
\* resolve()/reject() of the Promise: only the first call settles it.
SettleLast(p, st, v) == [st |-> st, v |-> v]
Settle(p, st, v) == IF p.st = "pending" THEN [st |-> st, v |-> v] ELSE p

resolve(E, v) == [E EXCEPT !.promise = Settle(@, "fulfilled", v)]
reject(E, err) == [E EXCEPT !.promise = Settle(@, "rejected", err)]

\* ------------------------------------------------------------------ done
\* removeListener(name, fn) removes one registration of fn.
RemoveOne(n) == IF n > 0 THEN n - 1 ELSE 0

\* done(): everything it unregisters; the handleData listeners that
\* readPolicy 'flowing' bound to 'data' are not among them.
doneUnregister(l) == [l EXCEPT !.rec = {}, !.endl = {}, !.abort = FALSE,
                               !.onend = FALSE, !.readable = RemoveOne(@)]

\* done() that leaves the post-end timer running.
doneKeepTimer(E) == [E EXCEPT !.isDone = TRUE,
                              !.L = [i \in Streams |-> doneUnregister(E.L[i])]]

done(E) == [E EXCEPT !.isDone = TRUE,
                     !.L = [i \in Streams |-> doneUnregister(E.L[i])],
                     !.postEndImmediate = FALSE,
                     !.postEndTimeout = FALSE]

\* onStreamError that rejects and leaves the comparison running.
onStreamErrorNoDone(E, err) == reject(E, err)

\* onStreamError(err)
onStreamError(E, err) == done(reject(E, err))

\* -------------------------------------------------- comparison functions
\* assert.deepStrictEqual-like comparator: inconclusive when equal; when
\* different it throws (style "throw") or returns a value (style "return").
deepEqual(a, b, style) ==
  IF a = b THEN None
  ELSE IF style = "throw" THEN [kind |-> "throw", v |-> "AssertionError"]
  ELSE [kind |-> "value", v |-> "different"]

\* The value of an Array-like property of a state.
Prop(s, propName) == IF propName = "data" THEN s.data ELSE [k |-> "arr", v |-> s.events]
WithProp(s, propName, val) ==
  IF propName = "data" THEN [s EXCEPT !.data = val] ELSE [s EXCEPT !.events = val.v]

Min(a, b) == IF a <= b THEN a ELSE b

\* (values && values.length !== 0) || state.ended; and a test that always passes.
HasValuesAlways(values, s) == TRUE
HasValues(values, s) == Len0(values) # 0 \/ s.ended

\* incrementalProp that trims the values of state1 only.
incrementalPropTrimFirst(state1, state2, propName, style) ==
  LET values1 == Prop(state1, propName)
      values2 == Prop(state2, propName)
  IN IF HasValues(values1, state1) /\ HasValues(values2, state2)
     THEN LET minLen == Min(Len0(values1), Len0(values2))
              args ==
                IF Len0(values1) > minLen /\ ~state2.ended
                  THEN <<SliceTo(values1, minLen), values2>>
                ELSE IF Len0(values2) > minLen /\ ~state1.ended
                  THEN <<values1, SliceTo(values2, minLen)>>
                ELSE <<values1, values2>>
              result == deepEqual(args[1], args[2], style)
          IN IF minLen > 0 /\ ~Conclusive(result)
             THEN [s1 |-> WithProp(state1, propName, SliceFrom(values1, minLen)),
                   s2 |-> state2,
                   res |-> result, called |-> TRUE, args |-> args]
             ELSE [s1 |-> state1, s2 |-> state2, res |-> result, called |-> TRUE,
                   args |-> args]
     ELSE [s1 |-> state1, s2 |-> state2, res |-> None, called |-> FALSE, args |-> <<>>]

\* incrementalProp(state1, state2, propName, compare): the states it leaves,
\* the comparator's outcome, whether the comparator was called and with what.
incrementalProp(state1, state2, propName, style) ==
  LET values1 == Prop(state1, propName)
      values2 == Prop(state2, propName)
  IN IF HasValues(values1, state1) /\ HasValues(values2, state2)
     THEN LET minLen == Min(Len0(values1), Len0(values2))
              args ==
                IF Len0(values1) > minLen /\ ~state2.ended
                  THEN <<SliceTo(values1, minLen), values2>>
                ELSE IF Len0(values2) > minLen /\ ~state1.ended
                  THEN <<values1, SliceTo(values2, minLen)>>
                ELSE <<values1, values2>>
              result == deepEqual(args[1], args[2], style)
          IN IF minLen > 0 /\ ~Conclusive(result)
             THEN [s1 |-> WithProp(state1, propName, SliceFrom(values1, minLen)),
                   s2 |-> WithProp(state2, propName, SliceFrom(values2, minLen)),
                   res |-> result, called |-> TRUE, args |-> args]
             ELSE [s1 |-> state1, s2 |-> state2, res |-> result, called |-> TRUE,
                   args |-> args]
     ELSE [s1 |-> state1, s2 |-> state2, res |-> None, called |-> FALSE, args |-> <<>>]

\* The function makeIncremental(compareData, compareEvents) returns;
\* withEvents says whether compareEvents was given.  A throw of compareData
\* leaves the function before the events are compared.
\* d is the outcome for the data, e the outcome for the events.
\* evCalled says whether compareEvents was called.
incrementalResult(d, e) ==
  [s1 |-> e.s1, s2 |-> e.s2,
   res |-> IF e.res.kind = "throw" THEN e.res
           ELSE IF Conclusive(d.res) THEN d.res ELSE e.res,
   evCalled |-> e.called]

incrementalEvents(d, withEvents, style) ==
  IF d.res.kind = "throw"
  THEN [s1 |-> d.s1, s2 |-> d.s2, res |-> d.res, evCalled |-> FALSE]
  ELSE incrementalResult(d, IF withEvents
                            THEN incrementalProp(d.s1, d.s2, "events", style)
                            ELSE [s1 |-> d.s1, s2 |-> d.s2, res |-> None, called |-> FALSE])

incremental(state1, state2, withEvents, style) ==
  incrementalEvents(incrementalProp(state1, state2, "data", style), withEvents, style)

\* options.incremental and options.compare applied to the two states.
\* opts.incremental is "none", "data" (makeIncremental(cmp)) or "both"
\* (makeIncremental(cmp, cmp)); opts.compare is "deep" (the comparator on the
\* whole states) or "incremental" (compare omitted: options.compare =
\* options.incremental).
applyIncremental(opts, s) ==
  incremental(s[1], s[2], opts.incremental = "both", opts.style)

applyCompare(opts, s) ==
  IF opts.compare = "deep"
  THEN [s1 |-> s[1], s2 |-> s[2], res |-> deepEqual(s[1], s[2], opts.style)]
  ELSE applyIncremental(opts, s)

\* ------------------------------------------------------------- doCompare
\* doCompare in which an inconclusive final compare does not settle.
doCompareLastInconclusive(E, type, r) ==
  LET E1 == [E EXCEPT !.state = [i \in Streams |-> IF i = 1 THEN r.s1 ELSE r.s2],
                      !.inv = Append(@, type)]
  IN IF r.res.kind = "value" THEN [E |-> done(resolve(E1, r.res.v)), ret |-> TRUE]
     ELSE IF r.res.kind = "throw" THEN [E |-> done(reject(E1, r.res.v)), ret |-> TRUE]
     ELSE [E |-> E1, ret |-> FALSE]

\* doCompare(compareFn, type): fn is "compare" or "incremental".
\* Returns the engine and the function's return value.
\* r is what compareFn(state1, state2) did: the states it left and its outcome.
doCompareResult(E, type, r) ==
  LET E1 == [E EXCEPT !.state = [i \in Streams |-> IF i = 1 THEN r.s1 ELSE r.s2],
                      !.inv = Append(@, type)]
  IN IF r.res.kind = "value" THEN [E |-> done(resolve(E1, r.res.v)), ret |-> TRUE]
     ELSE IF r.res.kind = "throw" THEN [E |-> done(reject(E1, r.res.v)), ret |-> TRUE]
     ELSE IF type = "last" THEN [E |-> done(resolve(E1, "undefined")), ret |-> TRUE]
     ELSE [E |-> E1, ret |-> FALSE]

doCompare(E, fn, type) ==
  doCompareResult(E, type, IF fn = "compare" THEN applyCompare(options, E.state)
                           ELSE applyIncremental(options, E.state))

\* ------------------------------------------------- listeners of the engine
\* listener that puts the event before those recorded.
listenerPrepend(E, i, eventName, args) ==
  LET E1 == [E EXCEPT !.state[i].events = <<[name |-> eventName, args |-> args]>> \o @]
  IN IF options.incremental # "none"
     THEN doCompare(E1, "incremental", "incremental").E
     ELSE E1

\* listener that records every event in the state of stream 1.
listenerFirstState(E, i, eventName, args) ==
  LET E1 == [E EXCEPT !.state[1].events = Append(@, [name |-> eventName, args |-> args])]
  IN IF options.incremental # "none"
     THEN doCompare(E1, "incremental", "incremental").E
     ELSE E1

\* listener(...args) of an observed event, called with this = state i.
listener(E, i, eventName, args) ==
  LET E1 == [E EXCEPT !.state[i].events = Append(@, [name |-> eventName, args |-> args])]
  IN IF options.incremental # "none"
     THEN doCompare(E1, "incremental", "incremental").E
     ELSE E1

\* Scheduling that runs postEndCompare at once when the delay is zero.
schedulePostEndNow(E) ==
  IF options.delay # 0 THEN [E EXCEPT !.postEndTimeout = TRUE]
  ELSE doCompare(E, "compare", "last").E

\* setTimeout(postEndCompare, delay) or setImmediate(postEndCompare)
schedulePostEnd(E) ==
  IF options.delay # 0 THEN [E EXCEPT !.postEndTimeout = TRUE]
  ELSE [E EXCEPT !.postEndImmediate = TRUE]

\* The end of endListener: c is what its incremental compare returned.
\* One that schedules the final compare at the first stream's end:
postEndEager(c) == IF c.ret THEN c.E ELSE schedulePostEnd(c.E)

\* One that schedules it also after a conclusive incremental compare:
postEndAlways(c) == IF c.E.ended = 2 THEN schedulePostEnd(c.E) ELSE c.E

postEnd(c) ==
  IF c.ret THEN c.E
  ELSE IF c.E.ended = 2 THEN schedulePostEnd(c.E)
  ELSE c.E

\* endListener without the test of state.ended.
endListenerAgain(E, i) ==
  IF E.isDone THEN E
  ELSE LET E1 == [E EXCEPT !.state[i].ended = TRUE, !.ended = @ + 1]
       IN postEnd(IF options.incremental # "none"
                  THEN doCompare(E1, "incremental", "incremental")
                  ELSE [E |-> E1, ret |-> FALSE])

\* endListener(state)
endListener(E, i) ==
  IF E.state[i].ended \/ E.isDone THEN E
  ELSE LET E1 == [E EXCEPT !.state[i].ended = TRUE, !.ended = @ + 1]
       IN postEnd(IF options.incremental # "none"
                  THEN doCompare(E1, "incremental", "incremental")
                  ELSE [E |-> E1, ret |-> FALSE])

\* addData that takes a payload of any type.
addDataAny(s, data) ==
  [ok |-> TRUE,
   s |-> [s EXCEPT !.data = IF s.data.k = "undef" THEN [k |-> "arr", v |-> <<data>>]
                             ELSE [k |-> "arr", v |-> Append(s.data.v, data)],
                   !.totalDataLen = @ + 1]]

\* addData(data), called with this = s: the new state, or a thrown TypeError.
addData(s, data) ==
  IF options.objectMode
  THEN [ok |-> TRUE,
        s |-> [s EXCEPT !.data = IF s.data.k = "undef" THEN [k |-> "arr", v |-> <<data>>]
                                  ELSE [k |-> "arr", v |-> Append(s.data.v, data)],
                        !.totalDataLen = @ + 1]]
  ELSE IF TypeOf(data) \notin {"str", "buf"} THEN [ok |-> FALSE, s |-> s]
  ELSE IF s.data.k = "undef"
  THEN [ok |-> TRUE, s |-> [s EXCEPT !.data = [k |-> TypeOf(data), v |-> <<data>>],
                                     !.totalDataLen = @ + 1]]
  ELSE IF s.data.k = TypeOf(data)
  THEN [ok |-> TRUE, s |-> [s EXCEPT !.data = [k |-> s.data.k, v |-> Append(s.data.v, data)],
                                     !.totalDataLen = @ + 1]]
  ELSE [ok |-> FALSE, s |-> s]

\* handleData without the incremental comparison after the data is added.
handleDataNoCompare(E, i, data) ==
  LET a == addData(E.state[i], data)
  IN IF ~a.ok THEN done(reject(E, "TypeError")) ELSE [E EXCEPT !.state[i] = a.s]

\* handleData(state, data); a is the outcome of addData.call(state, data).
handleAdded(E, i, a) ==
  IF ~a.ok THEN done(reject(E, "TypeError"))
  ELSE IF options.incremental # "none"
  THEN doCompare([E EXCEPT !.state[i] = a.s], "incremental", "incremental").E
  ELSE [E EXCEPT !.state[i] = a.s]

handleData(E, i, data) == handleAdded(E, i, addData(E.state[i], data))

\* ---------------------------------------------------------- read scheduler
\* pickStream that prefers stream 1 whatever has been read.
pickStreamFirst(E) ==
  IF ~E.state[1].ended THEN 1
  ELSE IF ~E.state[2].ended THEN 2
  ELSE 0

\* pickStream that reads stream 2 when both have been read equally.
pickStreamSecondOnTie(E) ==
  IF ~E.state[1].ended
     /\ (E.state[2].ended \/ E.state[1].totalDataLen < E.state[2].totalDataLen)
  THEN 1
  ELSE IF ~E.state[2].ended THEN 2
  ELSE 0

\* The stream readNext reads from next: 0 when both states have ended.
pickStream(E) ==
  IF ~E.state[1].ended
     /\ (E.state[2].ended \/ E.state[1].totalDataLen <= E.state[2].totalDataLen)
  THEN 1
  ELSE IF ~E.state[2].ended THEN 2
  ELSE 0

\* What stream i's read() returns next: the oldest payload of its buffer.
ReadOf(E, i) == script[i][E.pc[i] - E.avail[i]]

\* stream.read() is called on stream i: the call is noted with what the
\* closure variables are when it is made.
Pulled(E, i) ==
  [E EXCEPT !.pulls = Append(@, [stream |-> i,
                                  ended |-> <<E.state[1].ended, E.state[2].ended>>,
                                  total |-> <<E.state[1].totalDataLen,
                                              E.state[2].totalDataLen>>,
                                  isDone |-> E.isDone])]

\* readNext after stream.read() has been called on stream i (E has the call).
RECURSIVE readNext(_)
readFrom(E, i) ==
  IF E.avail[i] = 0
  THEN [E EXCEPT !.L[i].readable = @ + 1]
  ELSE readNext(handleData([E EXCEPT !.avail[i] = @ - 1], i, ReadOf(E, i)))

readNext(E) ==
  IF E.isDone THEN E
  ELSE LET i == pickStream(E)
       IN IF i = 0 THEN E ELSE readFrom(Pulled(E, i), i)

\* readNextOnEnd()
readNextOnEnd(E) ==
  readNext([E EXCEPT !.L = [i \in Streams |-> [E.L[i] EXCEPT !.readable = RemoveOne(@)]]])

\* ------------------------------------------------------------------ emit
\* 'readable' emitted by stream i: each of the n once-registrations of
\* readNext the emit found is unregistered, if it still is registered, and
\* called.
RECURSIVE emitReadable(_, _, _)
emitReadable(E, i, n) ==
  IF n = 0 THEN E
  ELSE LET E1 == IF E.L[i].readable >= n THEN [E EXCEPT !.L[i].readable = @ - 1] ELSE E
       IN emitReadable(readNext(E1), i, n - 1)

\* stream i emits eventName: the listeners registered when the emit starts
\* are called in the order of their registration (the recorder, endListener,
\* onStreamError, readNextOnEnd), also those an earlier one has removed.
\* L0 is the listeners of stream i when the emit starts.
\* A recorder that is not registered on the end events.
callListenerNotOnEnd(E, L0, i, eventName) ==
  IF eventName \in L0.rec \ endEvents
  THEN listener(E, i, eventName, ArgsOf(i, eventName)) ELSE E

callListener(E, L0, i, eventName) ==
  IF eventName \in L0.rec THEN listener(E, i, eventName, ArgsOf(i, eventName)) ELSE E

callEndListener(E, L0, i, eventName) ==
  IF eventName \in L0.endl THEN endListener(E, i) ELSE E

callOnStreamError(E, L0, i, eventName) ==
  IF eventName = "error" /\ L0.abort
  THEN onStreamError([E EXCEPT !.L[i].abort = FALSE], ErrorOf(i))
  ELSE E

callReadNextOnEnd(E, L0, i, eventName) ==
  IF eventName = "end" /\ L0.onend
  THEN readNextOnEnd([E EXCEPT !.L[i].onend = FALSE])
  ELSE E

emit(E, i, eventName) ==
  callReadNextOnEnd(
    callOnStreamError(
      callEndListener(
        callListener(E, E.L[i], i, eventName),
        E.L[i], i, eventName),
      E.L[i], i, eventName),
    E.L[i], i, eventName)

\* 'data' emitted by stream i (readPolicy 'flowing').
emitData(E, i, data) == IF E.L[i].data THEN handleData(E, i, data) ELSE E

\* ------------------------------------------------------------- the inputs
RECURSIVE SeqsUpTo(_, _)
Extend(T, S, n) == T \cup {Append(t, x) : t \in {u \in T : Len(u) = n - 1}, x \in S}
SeqsUpTo(S, n) == IF n = 0 THEN {<<>>} ELSE Extend(SeqsUpTo(S, n - 1), S, n)

\* How a stream finishes: the events it emits after its payloads.  Under
\* readPolicy 'none' the engine neither reads nor listens for payloads, so
\* the scripts of that policy are the events alone.  The string and the
\* Buffer are treated alike, so stream 1 is taken to start with the string.
\* A stream without payloads may also emit a second end signal, 'error'
\* after 'end'.
DoubleEnd == <<"end", "error">>
\* A stream may deliver a payload that is neither a string nor a Buffer.
OtherScript == <<"N", "end", "close">>
Endings == {<<"end", "close">>, <<"error">>}
Scripts ==
  {p \o e : p \in SeqsUpTo(ConcatPayloads, MaxPayloads), e \in Endings}
    \cup {DoubleEnd, OtherScript}

\* The options of a call: either compare or incremental (makeIncremental) is
\* given; abortOnError and delay are each varied alone, with the throwing
\* comparator on concatenated data.
Configs ==
  {o \in [readPolicy : ReadPolicy, incremental : {"none", "data", "both"},
          compare : {"deep", "incremental"}, style : {"throw", "return"},
          objectMode : BOOLEAN, abortOnError : BOOLEAN, delay : {0, 1}] :
     /\ (o.compare = "incremental") = (o.incremental # "none")
     /\ (o.abortOnError \/ o.delay # 0) => (o.style = "throw" /\ ~o.objectMode)
     /\ ~(o.abortOnError /\ o.delay # 0)}

\* The call of streamCompare has returned the promise.
Returned == [result |-> "returned"]

\* A registration that does not leave 'error' out under abortOnError.
registeredWithError(o) ==
  [rec |-> events,
   endl |-> endEvents,
   abort |-> o.abortOnError,
   onend |-> o.readPolicy = "least",
   readable |-> 0,
   data |-> o.readPolicy = "flowing"]

\* The listeners streamCompare registers on each stream.
registered(o) ==
  [rec |-> IF o.abortOnError THEN events \ {"error"} ELSE events,
   endl |-> IF o.abortOnError THEN endEvents \ {"error"} ELSE endEvents,
   abort |-> o.abortOnError,
   onend |-> o.readPolicy = "least",
   readable |-> 0,
   data |-> o.readPolicy = "flowing"]

Init ==
  /\ options \in Configs
  /\ script \in [Streams -> Scripts]
  /\ options.readPolicy = "none" => \A i \in Streams : script[i] \in Endings \cup {DoubleEnd}
  /\ script[1][1] # "X"
  /\ pc = [i \in Streams |-> 1]
  /\ avail = [i \in Streams |-> 0]
  /\ state = [i \in Streams |-> StreamState]
  /\ ended = 0
  /\ isDone = FALSE
  /\ promise = Pending
  /\ listeners = [i \in Streams |-> registered(options)]
  /\ postEndImmediate = FALSE
  /\ postEndTimeout = FALSE
  /\ tickPending = (options.readPolicy = "least")
  /\ usedCtl = FALSE
  /\ lastRuns = 0
  /\ call = Returned

\* ------------------------------------------------------------- the actions
\* The number of final compares (CompareType.last) among the comparisons inv.
CountLast(inv) == Cardinality({k \in DOMAIN inv : inv[k] = "last"})

\* The handler's result becomes the next state; lastRuns counts the final
\* compares made since the call.
Commit(E) ==
  /\ state' = E.state
  /\ ended' = E.ended
  /\ isDone' = E.isDone
  /\ promise' = E.promise
  /\ listeners' = E.L
  /\ postEndImmediate' = E.postEndImmediate
  /\ postEndTimeout' = E.postEndTimeout
  /\ avail' = E.avail
  /\ pc' = E.pc
  /\ lastRuns' = lastRuns + CountLast(E.inv)
  /\ UNCHANGED <<options, script, call>>

HasNext(i) == pc[i] <= Len(script[i])
Tok(i) == script[i][pc[i]]
Advance(i) == [Eng EXCEPT !.pc[i] = @ + 1]

\* process.nextTick(readNext) of readPolicy 'least' runs.
Start ==
  /\ tickPending
  /\ tickPending' = FALSE
  /\ Commit(readNext(Eng))
  /\ UNCHANGED usedCtl

\* readPolicy 'flowing': stream i emits 'data' with its next payload.
EmitData(i) ==
  /\ options.readPolicy = "flowing"
  /\ HasNext(i) /\ Tok(i) \in Payloads
  /\ Commit(emitData(Advance(i), i, Tok(i)))
  /\ UNCHANGED <<tickPending, usedCtl>>

\* readPolicy 'least': stream i buffers its next payload and emits 'readable'.
Push(i) ==
  /\ options.readPolicy = "least"
  /\ HasNext(i) /\ Tok(i) \in Payloads
  /\ LET E0 == [Eng EXCEPT !.pc[i] = @ + 1, !.avail[i] = @ + 1]
     IN Commit(emitReadable(E0, i, E0.L[i].readable))
  /\ UNCHANGED <<tickPending, usedCtl>>

\* Stream i emits its next event; 'end' only once its buffer has been read.
EmitEvent(i) ==
  /\ HasNext(i) /\ Tok(i) \notin Payloads
  /\ Tok(i) = "end" => avail[i] = 0
  /\ Commit(emit(Advance(i), i, Tok(i)))
  /\ UNCHANGED <<tickPending, usedCtl>>

\* The timer of postEndCompare fires.
PostEndCompare ==
  /\ postEndImmediate \/ postEndTimeout
  /\ \E E \in {doCompare([Eng EXCEPT !.postEndImmediate = FALSE, !.postEndTimeout = FALSE],
                       "compare", "last").E} : Commit(E)
  /\ UNCHANGED <<tickPending, usedCtl>>

\* checkpoint() without the isDone test.
checkpointUnguarded(E) == doCompare(E, "compare", "checkpoint").E

\* end() that compares as a checkpoint does.
endAsCheckpoint(E) == IF E.isDone THEN E ELSE doCompare(E, "compare", "checkpoint").E

\* promise.checkpoint()
checkpoint(E) == IF E.isDone THEN E ELSE doCompare(E, "compare", "checkpoint").E

\* promise.end()
end(E) == IF E.isDone THEN E ELSE doCompare(E, "compare", "last").E

Checkpoint ==
  /\ Commit(checkpoint(Eng))
  /\ usedCtl' = (usedCtl \/ ~isDone)
  /\ UNCHANGED tickPending

End ==
  /\ Commit(end(Eng))
  /\ usedCtl' = (usedCtl \/ ~isDone)
  /\ UNCHANGED tickPending

Next ==
  \/ Start
  \/ \E i \in Streams : EmitData(i)
  \/ \E i \in Streams : Push(i)
  \/ \E i \in Streams : EmitEvent(i)
  \/ PostEndCompare
  \/ Checkpoint
  \/ End

Spec == Init /\ [][Next]_vars

\* ------------------------------------------------ the call of streamCompare
\* The arguments of a call, by what the validation looks at.  A stream is a
\* Readable ("readable"), an EventEmitter without read() ("emitter") or
\* something else; optionsOrCompare is falsy ("undefined"), a function, an
\* object or another truthy value; the options of an object are a function,
\* absent or something else (compare, incremental), Array-like, absent or
\* something else (events, endEvents), and for readPolicy a name of
\* ReadPolicy, absent, another string or no string.
StreamKinds == {"readable", "emitter", "other"}
FnKinds == {"undefined", "function", "other"}
ArrayKinds == {"default", "array", "other"}
PolicyKinds == ReadPolicy \cup {"default", "unknown", "nonstring"}

NoOptions == [compare |-> "undefined", incremental |-> "undefined",
              endEvents |-> "default", events |-> "default", readPolicy |-> "default"]

CallArgs ==
  {a \in [stream1 : StreamKinds, stream2 : StreamKinds,
           optionsOrCompare : {"undefined", "function", "object", "other"},
           opts : [compare : FnKinds, incremental : FnKinds, endEvents : ArrayKinds,
                   events : ArrayKinds, readPolicy : PolicyKinds]] :
     a.optionsOrCompare # "object" => a.opts = NoOptions}

\* Object.assign({}, DEFAULT_OPTIONS, options) and the default of compare.
compareOf(a) ==
  IF a.optionsOrCompare = "function" THEN "function"
  ELSE IF a.opts.compare = "undefined" THEN a.opts.incremental
  ELSE a.opts.compare

readPolicyOf(a) == IF a.opts.readPolicy = "default" THEN "least" ELSE a.opts.readPolicy

Thrown(name, what) == [result |-> "thrown", name |-> name, what |-> what]
Valid == [result |-> "returned", name |-> "none", what |-> "none"]

\* The validation that accepts every readPolicy.
validateAnyPolicy(a) ==
  IF a.optionsOrCompare = "other" THEN Thrown("TypeError", "optionsOrCompare")
  ELSE IF a.stream1 = "other" THEN Thrown("TypeError", "stream1")
  ELSE IF a.stream2 = "other" THEN Thrown("TypeError", "stream2")
  ELSE IF readPolicyOf(a) = "least" /\ (a.stream1 # "readable" \/ a.stream2 # "readable")
    THEN Thrown("TypeError", "read")
  ELSE IF compareOf(a) # "function" THEN Thrown("TypeError", "compare")
  ELSE IF a.opts.endEvents = "other" THEN Thrown("TypeError", "endEvents")
  ELSE IF a.opts.events = "other" THEN Thrown("TypeError", "events")
  ELSE IF a.opts.incremental = "other" THEN Thrown("TypeError", "incremental")
  ELSE Valid

\* The checks at the head of streamCompare, in their order: what the first
\* failing one throws.
validate(a) ==
  IF a.optionsOrCompare = "other" THEN Thrown("TypeError", "optionsOrCompare")
  ELSE IF a.stream1 = "other" THEN Thrown("TypeError", "stream1")
  ELSE IF a.stream2 = "other" THEN Thrown("TypeError", "stream2")
  ELSE IF readPolicyOf(a) = "least" /\ (a.stream1 # "readable" \/ a.stream2 # "readable")
    THEN Thrown("TypeError", "read")
  ELSE IF compareOf(a) # "function" THEN Thrown("TypeError", "compare")
  ELSE IF a.opts.endEvents = "other" THEN Thrown("TypeError", "endEvents")
  ELSE IF a.opts.events = "other" THEN Thrown("TypeError", "events")
  ELSE IF a.opts.incremental = "other" THEN Thrown("TypeError", "incremental")
  ELSE IF readPolicyOf(a) = "nonstring" THEN Thrown("TypeError", "readPolicy")
  ELSE IF readPolicyOf(a) \notin ReadPolicy THEN Thrown("RangeError", "readPolicy")
  ELSE Valid

\* Before the call there is no promise, and the options are the defaults
\* with a compare function.
NoPromise == [st |-> "none", v |-> "undefined"]
DefaultConfig == [readPolicy |-> "least", incremental |-> "none", compare |-> "deep",
                  style |-> "throw", objectMode |-> FALSE, abortOnError |-> FALSE,
                  delay |-> 0]

\* The options a valid call runs with.
optionsOf(a) ==
  [DefaultConfig EXCEPT !.readPolicy = readPolicyOf(a),
                        !.incremental = IF a.opts.incremental = "function"
                                        THEN "both" ELSE "none",
                        !.compare = IF a.optionsOrCompare = "function"
                                       \/ a.opts.compare = "function"
                                    THEN "deep" ELSE "incremental"]

CallInit ==
  /\ call \in [args : CallArgs, result : {"before"}, name : {"none"}, what : {"none"}]
  /\ options = DefaultConfig
  /\ script = [i \in Streams |-> <<"end", "close">>]
  /\ pc = [i \in Streams |-> 1]
  /\ avail = [i \in Streams |-> 0]
  /\ state = [i \in Streams |-> StreamState]
  /\ ended = 0
  /\ isDone = FALSE
  /\ promise = NoPromise
  /\ listeners = [i \in Streams |-> NoListeners]
  /\ postEndImmediate = FALSE
  /\ postEndTimeout = FALSE
  /\ tickPending = FALSE
  /\ usedCtl = FALSE
  /\ lastRuns = 0

\* streamCompare(stream1, stream2, optionsOrCompare): a failing check throws
\* and nothing else happens; otherwise the promise is created, the listeners
\* are registered and, under 'least', the first read is scheduled.
streamCompare ==
  /\ call.result = "before"
  /\ call' = [args |-> call.args, result |-> validate(call.args).result,
              name |-> validate(call.args).name, what |-> validate(call.args).what]
  /\ IF validate(call.args) = Valid
     THEN /\ options' = optionsOf(call.args)
          /\ promise' = Pending
          /\ listeners' = [i \in Streams |-> registered(optionsOf(call.args))]
          /\ tickPending' = (readPolicyOf(call.args) = "least")
     ELSE UNCHANGED <<options, promise, listeners, tickPending>>
  /\ UNCHANGED <<script, pc, avail, state, ended, isDone, postEndImmediate,
                 postEndTimeout, usedCtl, lastRuns>>

CallSpec == CallInit /\ [][streamCompare]_vars

\* The event loop runs a scheduled postEndCompare (setImmediate/setTimeout);
\* the streams of this specification deliver at most MaxFairPayloads payloads.
FairInit ==
  /\ Init
  /\ \A i \in Streams :
       \E q \in SeqsUpTo(ConcatPayloads, MaxFairPayloads), e \in Endings :
         script[i] = q \o e

FairSpec == FairInit /\ [][Next]_vars /\ WF_vars(PostEndCompare)

\* ------------------------------------------------------------ the claims
Fulfilled(v) == [st |-> "fulfilled", v |-> v]
Rejected(v) == [st |-> "rejected", v |-> v]
Settled == promise.st # "pending"
TimerPending == postEndImmediate \/ postEndTimeout

IsPayload(t) == t \in Payloads
PayloadsOf(i) == SelectSeq(script[i], IsPayload)
\* Stream i's payloads are all strings or all Buffers, or objectMode is set.
Consistent(i) ==
  options.objectMode
  \/ /\ \A j \in 1..Len(PayloadsOf(i)) : PayloadsOf(i)[j] \in ConcatPayloads
     /\ \A j, k \in 1..Len(PayloadsOf(i)) :
          TypeOf(PayloadsOf(i)[j]) = TypeOf(PayloadsOf(i)[k])

\* C1: the deferred result changes at most once: once it is fulfilled or
\* rejected, no later compare, thrown error, stream error or end() replaces
\* its status or its value.
C1_SettlesOnce == [][Settled => promise' = promise]_vars

\* C1 witness: the promise is fulfilled while the states are ones the
\* incremental function throws on, which only a 'data' event handled after
\* settlement produces: that handler has called reject() on the settled promise.
C1_Witness ==
  /\ promise.st = "fulfilled"
  /\ options.incremental # "none"
  /\ applyIncremental(options, state).res.kind = "throw"

\* C2: once the comparison is settled neither StreamState changes again,
\* for every readPolicy and whatever the streams emit afterwards.
C2_FrozenAfterSettlement == [][isDone => state' = state]_vars

\* C3: after settlement no listener of the engine is left on either stream,
\* for every readPolicy.
C3_NoListenersAfterSettlement ==
  isDone => \A i \in Streams : listeners[i] = NoListeners

\* Both streams deliver the same payloads and emit the same events ('end'
\* then 'close'; the error objects of two streams are not the same value),
\* the payloads being ones the mode accepts.
SameStreams ==
  /\ script[1] = script[2]
  /\ \A j \in 1..Len(script[1]) : script[1][j] # "error"
  /\ Consistent(1) /\ Consistent(2)

\* C4: when the two streams emit identical payloads and identical observed
\* events, and the caller does not intervene, the comparison settles with the
\* empty success, under every readPolicy and any relative timing: it never
\* settles with anything else.
C4_IdenticalStreamsMatch ==
  (SameStreams /\ ~usedCtl /\ Settled) => promise = Fulfilled("undefined")

\* C5: under readPolicy 'least' the scheduler is never left suspended on
\* 'readable' of a stream whose state has ended, with no wait on the other
\* stream, while the comparison is running and the other stream has not ended
\* and holds a payload to be read.
C5_WokenWhenWaitedStreamEnds ==
  ~(/\ options.readPolicy = "least"
    /\ ~isDone
    /\ \E i \in Streams : /\ listeners[i].readable > 0
                          /\ state[i].ended
                          /\ ~state[Other(i)].ended
                          /\ listeners[Other(i)].readable = 0
                          /\ avail[Other(i)] > 0)

\* The first item at which the two streams' payloads differ (0: none).
FirstDiff ==
  LET p1 == PayloadsOf(1)
      p2 == PayloadsOf(2)
      D  == {k \in 1..Min(Len(p1), Len(p2)) : p1[k] # p2[k]}
  IN IF D = {} THEN 0 ELSE CHOOSE k \in D : \A j \in D : k <= j

\* The case of C6: objectMode, an incremental function made by makeIncremental
\* from a comparator that throws, streams that end by 'end' and whose payloads
\* differ at some item, and no checkpoint()/end() of the caller.
C6_Case ==
  /\ options.objectMode
  /\ options.incremental # "none"
  /\ options.style = "throw"
  /\ \A i \in Streams : \A j \in 1..Len(script[i]) : script[i][j] # "error"
  /\ FirstDiff # 0
  /\ ~usedCtl

BothHaveItem(k) == \A i \in Streams : state[i].totalDataLen >= k

\* C6 as stated: the result is rejected as soon as both states have
\* accumulated item k, and at that settlement neither stream has ended.
C6_RejectedBeforeAnyEnd ==
  C6_Case =>
    /\ BothHaveItem(FirstDiff) => promise = Rejected("AssertionError")
    /\ promise.st = "rejected" => \A i \in Streams : ~state[i].ended

\* C6 amended: the result is rejected as soon as both states have
\* accumulated item k, whether or not a stream has ended by then; until
\* then the comparison is not settled unless a stream has ended.
C6_RejectedAtFirstDifference ==
  C6_Case =>
    /\ BothHaveItem(FirstDiff) => promise = Rejected("AssertionError")
    /\ (Settled /\ \A i \in Streams : ~state[i].ended) => BothHaveItem(FirstDiff)

\* C6 witness: rejected at item k with neither stream ended.
C6_Witness ==
  /\ C6_Case
  /\ BothHaveItem(FirstDiff)
  /\ promise = Rejected("AssertionError")
  /\ \A i \in Streams : ~state[i].ended

\* What the engine holds besides the ghost usedCtl.
engineVars == <<state, ended, isDone, promise, listeners, postEndImmediate,
                postEndTimeout, pc, avail, tickPending>>

\* C7: checkpoint() while unsettled calls the compare function once on the
\* current states: a returned value fulfils with it, a throw rejects with the
\* thrown value, an inconclusive return leaves the comparison running with
\* every listener and timer as it was; checkpoint() and end() after
\* settlement call no compare function and change nothing.
C7_Checkpoint ==
  [][/\ Checkpoint =>
          IF isDone
          THEN checkpoint(Eng).inv = <<>> /\ UNCHANGED engineVars
          ELSE LET c == applyCompare(options, state).res
               IN /\ checkpoint(Eng).inv = <<"checkpoint">>
                  /\ c.kind = "value" => isDone' /\ promise' = Fulfilled(c.v)
                  /\ c.kind = "throw" => isDone' /\ promise' = Rejected(c.v)
                  /\ c.kind = "none" =>
                       /\ ~isDone' /\ promise' = Pending
                       /\ UNCHANGED <<listeners, postEndImmediate, postEndTimeout, ended>>
     /\ (End /\ isDone) => end(Eng).inv = <<>> /\ UNCHANGED engineVars]_vars

\* C7 witness: checkpoint() has been called and the comparison is running
\* (end() would have settled it), listeners registered.
C7_Witness ==
  /\ usedCtl /\ ~isDone /\ promise = Pending
  /\ \A i \in Streams : listeners[i].rec # {}

\* C8: end() while unsettled settles within the call, whatever the streams'
\* state and whether or not the post-end timer is pending: a returned value
\* fulfils with it, an inconclusive return fulfils with undefined.
C8_EndSettles ==
  [][(End /\ ~isDone) =>
       LET c == applyCompare(options, state).res
       IN /\ isDone' /\ promise'.st # "pending"
          /\ ~postEndImmediate' /\ ~postEndTimeout'
          /\ c.kind = "value" => promise' = Fulfilled(c.v)
          /\ c.kind = "none" => promise' = Fulfilled("undefined")]_vars

\* C8 witness: fulfilled with undefined while neither stream has ended, which
\* only end() does.
C8_Witness ==
  /\ isDone /\ usedCtl /\ promise = Fulfilled("undefined")
  /\ \A i \in Streams : ~state[i].ended /\ HasNext(i)

\* C9: with abortOnError, an 'error' event of either stream while unsettled
\* rejects with that stream's error and settles, calls neither the compare
\* nor the incremental function, and records nothing in the states.
C9_AbortOnError ==
  [][\A i \in Streams :
       (/\ options.abortOnError /\ ~isDone
        /\ HasNext(i) /\ Tok(i) = "error"
        /\ EmitEvent(i)) =>
         /\ promise' = Rejected(ErrorOf(i))
         /\ isDone'
         /\ state' = state
         /\ emit(Advance(i), i, "error").inv = <<>>]_vars

\* C9 witness: rejected with stream i's error while the other stream has not
\* ended and still has something to emit.
C9_Witness ==
  /\ options.abortOnError
  /\ \E i \in Streams : /\ promise = Rejected(ErrorOf(i))
                        /\ ~state[Other(i)].ended
                        /\ HasNext(Other(i))

\* C10: with no incremental function, abortOnError unset, type-consistent
\* payloads and no checkpoint()/end() of the caller, the final compare is not
\* scheduled and the result not settled before both streams have ended.
C10_SettledOnlyAfterBothEnd ==
  (/\ options.incremental = "none" /\ ~options.abortOnError
   /\ Consistent(1) /\ Consistent(2)
   /\ ~usedCtl) =>
     ((isDone \/ Settled \/ TimerPending) => \A i \in Streams : state[i].ended)

\* C10 witness: settled by the final compare in that case.
C10_Witness ==
  /\ options.incremental = "none" /\ ~options.abortOnError
  /\ Consistent(1) /\ Consistent(2)
  /\ ~usedCtl /\ isDone /\ Settled
  /\ \A i \in Streams : state[i].ended /\ state[i].totalDataLen > 0

\* The final compare of a step settles with its verdict.
LastVerdict ==
  \E c \in {applyCompare(options, state).res} :
     /\ isDone' /\ lastRuns' = 1
     /\ c.kind = "value" => promise' = Fulfilled(c.v)
     /\ c.kind = "throw" => promise' = Rejected(c.v)
     /\ c.kind = "none" => promise' = Fulfilled("undefined")

BothEndedUnsettled == ended = 2 /\ ~isDone

\* C11 as stated: once both streams have ended with the comparison unsettled
\* it eventually settles, and what settles it is the final compare, run
\* exactly once, with its verdict (undefined when inconclusive); the caller
\* calling neither checkpoint() nor end().
C11_SettledByFinalCompare ==
  /\ BothEndedUnsettled ~> isDone
  /\ [][(BothEndedUnsettled /\ isDone' /\ ~usedCtl') => LastVerdict]_vars

\* C11 amended: once both streams have ended with the comparison unsettled
\* the final compare is scheduled and the comparison eventually settles; the
\* final compare runs at most once, and the step that runs it settles with
\* its verdict (undefined when inconclusive); a settlement before the timer
\* fires is made without the final compare.
C11_EventuallySettles ==
  /\ BothEndedUnsettled ~> isDone
  /\ [](BothEndedUnsettled => TimerPending)
  /\ [](lastRuns <= 1)
  /\ [][lastRuns' # lastRuns => LastVerdict]_vars

\* C11 witness: both streams ended, the caller called nothing, and the
\* final compare, inconclusive, fulfilled with undefined.
C11_Witness ==
  /\ ended = 2 /\ isDone /\ ~usedCtl /\ lastRuns = 1
  /\ promise = Fulfilled("undefined")

PropNames == {"data", "events"}
Styles == {"throw", "return"}
UsableLen(propName) == Min(Len0(Prop(state[1], propName)), Len0(Prop(state[2], propName)))

\* new is old without its first n elements.
TrimmedBy(old, new, n) ==
  /\ new.k = old.k
  /\ Len0(new) = Len0(old) - n
  /\ \A k \in 1..Len0(new) : new.v[k] = old.v[k + n]

\* A pass over propName on the current states is one the trimming law is about:
\* the comparator is called and is inconclusive, and the usable length is > 0.
TrimmingPass(propName, style) ==
  /\ incrementalProp(state[1], state[2], propName, style).called
  /\ incrementalProp(state[1], state[2], propName, style).res = None
  /\ UsableLen(propName) > 0

\* C12: the trimming law.  After a pass over a property in which the
\* comparator is inconclusive and the usable length n is > 0, each state's
\* sequence has lost exactly its first n elements, the rest being unchanged
\* and in order, and nothing else of the states has changed.
C12_TrimmingLaw ==
  \A propName \in PropNames, style \in Styles :
    TrimmingPass(propName, style) =>
      LET r == incrementalProp(state[1], state[2], propName, style)
      IN /\ TrimmedBy(Prop(state[1], propName), Prop(r.s1, propName), UsableLen(propName))
         /\ TrimmedBy(Prop(state[2], propName), Prop(r.s2, propName), UsableLen(propName))
         /\ \A q \in PropNames \ {propName} :
              Prop(r.s1, q) = Prop(state[1], q) /\ Prop(r.s2, q) = Prop(state[2], q)
         /\ r.s1.ended = state[1].ended /\ r.s2.ended = state[2].ended
         /\ r.s1.totalDataLen = state[1].totalDataLen
         /\ r.s2.totalDataLen = state[2].totalDataLen

\* C12 witness: a pass that trims and leaves a tail in state 1.
C12_Witness ==
  \E propName \in PropNames :
    /\ TrimmingPass(propName, "throw")
    /\ Len0(Prop(incrementalProp(state[1], state[2], propName, "throw").s1, propName)) > 0

Diff(a, b) == IF a >= b THEN a - b ELSE b - a

\* The case of C13: readPolicy 'least', both streams un-ended, unsettled.
C13_Case ==
  /\ options.readPolicy = "least"
  /\ ~isDone
  /\ \A i \in Streams : ~state[i].ended

\* C13: under readPolicy 'least', while both streams are un-ended and the
\* comparison is unsettled, the totalDataLen of the two states differ by at
\* most one chunk (each read() of the streams returns one payload).
C13_LeastBalanced ==
  C13_Case => Diff(state[1].totalDataLen, state[2].totalDataLen) <= 1

\* C13 witness: stream 1 is one chunk ahead and holds a further payload, which
\* is not read while the scheduler waits for stream 2.
C13_Witness ==
  /\ C13_Case
  /\ state[1].totalDataLen = state[2].totalDataLen + 1
  /\ avail[1] > 0
  /\ listeners[2].readable > 0

\* The pass of the function makeIncremental(cmp, cmp) returns, and its pass
\* over the data alone, on the current states.
DataPass(style) == incrementalProp(state[1], state[2], "data", style)
FullPass(style) == incremental(state[1], state[2], TRUE, style)

\* C14: when compareData yields a conclusive verdict, compareEvents is not
\* called, the events of both states are left as they were and the verdict
\* returned is the data's.
C14_EventsOnlyIfDataInconclusive ==
  \A style \in Styles :
    DataPass(style).res # None =>
      /\ ~FullPass(style).evCalled
      /\ FullPass(style).res = DataPass(style).res
      /\ FullPass(style).s1.events = state[1].events
      /\ FullPass(style).s2.events = state[2].events

\* C15 as stated: a pass that ends with a conclusive verdict, returned or
\* thrown by either comparator, leaves the data and the events of both
\* states as they were.
C15_NoTrimmingWhenConclusive ==
  \A style \in Styles :
    FullPass(style).res # None =>
      FullPass(style).s1 = state[1] /\ FullPass(style).s2 = state[2]

\* C15 amended: a conclusive verdict of a comparator leaves the property it
\* compared untrimmed, in incrementalProp and in the whole pass; a throw of
\* compareData leaves both properties as they were.
C15_NoTrimmingOfConclusiveProperty ==
  /\ \A propName \in PropNames, style \in Styles :
       LET r == incrementalProp(state[1], state[2], propName, style)
       IN r.res # None => r.s1 = state[1] /\ r.s2 = state[2]
  /\ \A style \in Styles :
       LET d == DataPass(style)
           r == FullPass(style)
       IN /\ d.res # None => r.s1.data = state[1].data /\ r.s2.data = state[2].data
          /\ (d.res = None /\ r.res # None) =>
               r.s1.events = state[1].events /\ r.s2.events = state[2].events
          /\ d.res.kind = "throw" => r.s1 = state[1] /\ r.s2 = state[2]

\* C15 witness: a pass whose data comparison is inconclusive and trims, and
\* whose events comparison throws.
C15_Witness ==
  /\ DataPass("throw").res = None
  /\ DataPass("throw").s1 # state[1]
  /\ FullPass("throw").res.kind = "throw"

\* C16: the comparator is called with both sequences cut to the usable
\* length when neither state has ended; a sequence longer than the usable
\* length is passed whole exactly when the other state has ended, and is cut
\* to the usable length otherwise, also when its own state has ended.
C16_ComparatorArguments ==
  \A propName \in PropNames, style \in Styles :
    LET r == incrementalProp(state[1], state[2], propName, style)
        n == UsableLen(propName)
    IN r.called =>
         /\ (\A i \in Streams : ~state[i].ended) =>
              \A i \in Streams :
                r.args[i] = [k |-> Prop(state[i], propName).k,
                             v |-> SubSeq(Prop(state[i], propName).v, 1, n)]
         /\ \A i \in Streams :
              Len0(Prop(state[i], propName)) > n =>
                IF state[Other(i)].ended
                THEN r.args[i] = Prop(state[i], propName)
                ELSE Len0(r.args[i]) = n

\* C16 witness: state 1 has ended and holds more than state 2, which has not
\* ended and holds something: the comparator gets state 1's data cut.
C16_Witness ==
  /\ state[1].ended /\ ~state[2].ended
  /\ Len0(state[1].data) > Len0(state[2].data)
  /\ Len0(state[2].data) > 0
  /\ DataPass("throw").called

\* C17: if the sequence of either state is absent or empty and that state has
\* not ended, the pass over that property does not call the comparator, is
\* inconclusive and leaves both states as they were.
C17_NoCompareWithoutValues ==
  \A propName \in PropNames, style \in Styles :
    (\E i \in Streams : Len0(Prop(state[i], propName)) = 0 /\ ~state[i].ended) =>
      LET r == incrementalProp(state[1], state[2], propName, style)
      IN ~r.called /\ r.res = None /\ r.s1 = state[1] /\ r.s2 = state[2]

\* C17 witness: the incremental function has run on data of stream 1 while
\* stream 2 had delivered nothing and had not ended, and the comparison goes on
\* with that data kept.
C17_Witness ==
  /\ options.incremental # "none" /\ ~isDone
  /\ Len0(state[1].data) > 0
  /\ state[2].data = Undefined /\ ~state[2].ended

\* Stream i, whose state has ended, emits a further end signal while the
\* comparison is unsettled.
SecondEndSignal(i) ==
  /\ HasNext(i) /\ Tok(i) \in endEvents
  /\ state[i].ended /\ ~isDone
  /\ EmitEvent(i)

TimerScheduled == ~TimerPending /\ TimerPending'

\* What holds of ended whatever the events: a state's ended never goes back
\* to false, the count is the number of ended states, and the final compare
\* is scheduled only by the step that takes the count from 1 to 2.
EndedOnce ==
  /\ [][\A i \in Streams : state[i].ended => state'[i].ended]_vars
  /\ [](ended = Cardinality({i \in Streams : state[i].ended}))
  /\ [][TimerScheduled => (ended = 1 /\ ended' = 2)]_vars

\* C18 as stated: ended is set once and for all, and a second end signal of
\* a stream is ignored: the incremental function is not run, the count does
\* not advance, and the final compare is not scheduled again.
C18_SecondEndSignalIgnored ==
  /\ EndedOnce
  /\ [][\A i \in Streams :
          SecondEndSignal(i) =>
            /\ ended' = ended
            /\ ~TimerScheduled
            /\ emit(Advance(i), i, Tok(i)).inv = <<>>]_vars

\* C18 amended: ended is set once and for all, and endListener ignores a
\* second end signal of a stream: the count does not advance and the final
\* compare is not scheduled again.  The event is still handled by the other
\* listeners registered for it: when it is one of the recorded events it is
\* appended to the state's events and the incremental function, if any, runs
\* once on it; with abortOnError an 'error' rejects.
C18_EndListenerIgnoresSecondEnd ==
  /\ EndedOnce
  /\ [][\A i \in Streams :
          SecondEndSignal(i) =>
            /\ ended' = ended
            /\ ~TimerScheduled
            /\ endListener(Advance(i), i) = Advance(i)
            /\ emit(Advance(i), i, Tok(i)).inv =
                 IF Tok(i) \in listeners[i].rec /\ options.incremental # "none"
                 THEN <<"incremental">> ELSE <<>>
            /\ (Tok(i) \in listeners[i].rec /\ options.incremental = "none") =>
                 state'[i].events =
                   Append(state[i].events, [name |-> Tok(i), args |-> ArgsOf(i, Tok(i))])
            /\ (options.abortOnError /\ Tok(i) = "error") =>
                 promise' = Rejected(ErrorOf(i))]_vars

\* C18 witness: a stream has emitted 'end' and then 'error' while the other
\* has not ended, and the comparison is running.
C18_Witness ==
  \E i \in Streams :
    /\ script[i] = DoubleEnd /\ ~HasNext(i)
    /\ state[i].ended /\ ~state[Other(i)].ended
    /\ ended = 1 /\ ~isDone

\* The arguments a call is to refuse: optionsOrCompare neither an object nor
\* a function, a stream that is no EventEmitter, readPolicy 'least' with a
\* stream lacking read(), compare or incremental no function, events or
\* endEvents not Array-like, readPolicy no string or an unknown one.
InvalidArgs(a) ==
  \/ a.optionsOrCompare \in {"undefined", "other"}
  \/ a.stream1 = "other" \/ a.stream2 = "other"
  \/ /\ a.opts.readPolicy \in {"default", "least"}
     /\ a.stream1 = "emitter" \/ a.stream2 = "emitter"
  \/ a.optionsOrCompare = "object" /\ a.opts.compare = "other"
  \/ /\ a.optionsOrCompare = "object" /\ a.opts.compare = "undefined"
     /\ a.opts.incremental # "function"
  \/ a.opts.incremental = "other"
  \/ a.opts.endEvents = "other" \/ a.opts.events = "other"
  \/ a.opts.readPolicy \in {"unknown", "nonstring"}

\* C19: a call with invalid arguments throws within the call, a TypeError or
\* a RangeError, with no listener registered on either stream, no read
\* scheduled and no promise created, so that no validation failure is a
\* rejection; a call with valid arguments returns the pending promise.
C19_ValidationThrowsSynchronously ==
  call.result \notin {"before"} =>
    IF InvalidArgs(call.args)
    THEN /\ call.result = "thrown"
         /\ call.name \in {"TypeError", "RangeError"}
         /\ promise = NoPromise
         /\ \A i \in Streams : listeners[i] = NoListeners
         /\ ~tickPending /\ ~postEndImmediate /\ ~postEndTimeout
    ELSE call.result = "returned" /\ promise = Pending

\* C19 witness: an unknown readPolicy, all else being valid, has thrown the
\* RangeError of the last check.
C19_Witness ==
  /\ call.result = "thrown" /\ call.name = "RangeError"
  /\ call.args.opts.compare = "function"
  /\ promise = NoPromise

\* In non-object mode, data is a payload state s cannot take: neither a
\* string nor a Buffer, or not of the type s has accumulated.
Offending(s, data) ==
  \/ data \in OtherPayloads
  \/ s.data # Undefined /\ s.data.k # TypeOf(data)

\* C20: in non-object mode an offending payload makes addData throw, leaving
\* the state's data and totalDataLen as they were, and handleData, while the
\* comparison is unsettled, rejects with the TypeError and settles without
\* any comparison; any other payload is appended.  In objectMode every
\* payload is appended as one element and totalDataLen grows by 1.
C20_AddData ==
  \A i \in Streams, data \in Payloads :
    LET a == addData(state[i], data)
        E == handleData(Eng, i, data)
    IN IF ~options.objectMode /\ Offending(state[i], data)
       THEN /\ ~a.ok /\ a.s = state[i]
            /\ E.state = state
            /\ ~isDone => (E.promise = Rejected("TypeError") /\ E.isDone /\ E.inv = <<>>)
       ELSE /\ a.ok
            /\ a.s.totalDataLen = state[i].totalDataLen + 1
            /\ a.s.data.v = Append(state[i].data.v, data)
            /\ a.s.data.k = IF options.objectMode THEN "arr" ELSE TypeOf(data)
            /\ a.s.events = state[i].events /\ a.s.ended = state[i].ended

\* C20 witness: under 'flowing' without objectMode, a stream has delivered a
\* string and then a Buffer (or the reverse); the second was not added and the
\* result is rejected with the TypeError.
C20_Witness ==
  /\ ~options.objectMode /\ options.readPolicy = "flowing"
  /\ promise = Rejected("TypeError") /\ isDone
  /\ \E i \in Streams :
       /\ pc[i] = 3 /\ script[i][2] \in ConcatPayloads
       /\ TypeOf(script[i][1]) # TypeOf(script[i][2])
       /\ state[i].totalDataLen = 1

\* What stream i has emitted so far, the payloads the engine has read of it,
\* and those of them addData took: without objectMode, the strings or the
\* Buffers, whichever came first.
Emitted(i) == SubSeq(script[i], 1, pc[i] - 1)
PayloadsRead(i) ==
  LET p == SelectSeq(Emitted(i), IsPayload)
  IN SubSeq(p, 1, Len(p) - avail[i])

IsConcatPayload(t) == t \in ConcatPayloads
Accepted(i) ==
  LET c == SelectSeq(PayloadsRead(i), IsConcatPayload)
      SameType(t) == t \in ConcatPayloads /\ TypeOf(t) = TypeOf(c[1])
  IN IF options.objectMode THEN PayloadsRead(i)
     ELSE SelectSeq(PayloadsRead(i), SameType)

\* The observed events stream i has emitted, as the listener records them.
Observed(i) ==
  LET IsObserved(t) == t \in registered(options).rec
      names == SelectSeq(Emitted(i), IsObserved)
  IN [k \in 1..Len(names) |-> [name |-> names[k], args |-> ArgsOf(i, names[k])]]

IsSuffix(s, t) ==
  /\ Len(s) <= Len(t)
  /\ s = SubSeq(t, Len(t) - Len(s) + 1, Len(t))
IsInfix(s, t) ==
  \E a \in 1..(Len(t) + 1) : \E b \in (a - 1)..Len(t) : s = SubSeq(t, a, b)

\* C21: the data of a state is what addData has taken of the payloads read
\* from its stream, in their order, less a prefix, and totalDataLen counts
\* them all; the events of a state are consecutive observed events of its
\* stream in their order of emission, up to the latest one while the
\* comparison is running.
C21_AppendedOrPrefixTrimmed ==
  \A i \in Streams :
    /\ state[i].totalDataLen = Len(Accepted(i))
    /\ IsSuffix(state[i].data.v, Accepted(i))
    /\ IsInfix(state[i].events, Observed(i))
    /\ ~isDone => IsSuffix(state[i].events, Observed(i))

\* C21 witness: a running comparison in which a state has lost a prefix of
\* its data and keeps the rest, and holds an event.
C21_Witness ==
  /\ ~isDone
  /\ \E i \in Streams :
       /\ Len0(state[i].data) > 0
       /\ state[i].totalDataLen > Len0(state[i].data)
  /\ \E i \in Streams : Len(state[i].events) > 0

\* The record the listener makes of stream i's next event.
NextRecord(i) == [name |-> Tok(i), args |-> ArgsOf(i, Tok(i))]

\* C22: with delay zero the final compare is never made within the emit of
\* an event, the second end signal included: that emit leaves it scheduled
\* (or settles by the incremental function).  An observed event a stream
\* emits while it is scheduled is recorded in the state, and passed through
\* the incremental function if there is one, before the final compare.
C22_FinalCompareDeferred ==
  [][\A i \in Streams :
       (options.delay = 0 /\ HasNext(i) /\ EmitEvent(i)) =>
         /\ lastRuns' = lastRuns
         /\ (ended = 1 /\ ended' = 2 /\ ~isDone') => (postEndImmediate' /\ lastRuns' = 0)
         /\ (postEndImmediate /\ Tok(i) \in listeners[i].rec) =>
              /\ options.incremental = "none" =>
                   /\ state'[i].events = Append(state[i].events, NextRecord(i))
                   /\ postEndImmediate'
              /\ options.incremental # "none" =>
                   /\ emit(Advance(i), i, Tok(i)).inv = <<"incremental">>
                   /\ \E r \in {applyIncremental(options,
                                [state EXCEPT ![i].events = Append(@, NextRecord(i))])} :
                        state' = <<r.s1, r.s2>>]_vars

\* C22 witness: no incremental function, delay zero, no call of the caller:
\* the final compare has run with the 'close' of both streams recorded, one
\* of which at least was emitted after the second 'end'.
C22_Witness ==
  /\ options.delay = 0 /\ options.incremental = "none" /\ ~usedCtl
  /\ isDone /\ lastRuns = 1
  /\ \A i \in Streams :
       /\ Len(state[i].events) = 2
       /\ state[i].events[2].name = "close"

\* Stream i emits 'error'.
EmitsError(i) == HasNext(i) /\ Tok(i) = "error" /\ EmitEvent(i)

\* The 'error' of stream i is recorded: appended to the state's events and,
\* if there is an incremental function, passed to it.
ErrorRecorded(i) ==
  /\ options.incremental = "none" =>
       state'[i].events = Append(state[i].events, NextRecord(i))
  /\ options.incremental # "none" =>
       /\ emit(Advance(i), i, "error").inv # <<>>
       /\ emit(Advance(i), i, "error").inv[1] = "incremental"

\* The incremental pass on the states with the 'error' of stream i recorded
\* is conclusive.
RecordingConclusive(i) ==
  /\ options.incremental # "none"
  /\ applyIncremental(options,
        [state EXCEPT ![i].events = Append(@, NextRecord(i))]).res # None

\* With abortOnError an 'error' changes neither state and, if unsettled,
\* rejects with the stream's error.
ErrorAborts(i) ==
  /\ state' = state
  /\ ~isDone => (promise' = Rejected(ErrorOf(i)) /\ isDone')

\* C23 as stated: with abortOnError an 'error' is not recorded and ends no
\* state, it aborts; without it, an 'error' emitted while the comparison is
\* running is recorded, marks the stream's state ended and does not reject
\* with the stream's error.
C23_ErrorRecordedAndEnds ==
  [][\A i \in Streams :
       EmitsError(i) =>
         IF options.abortOnError THEN ErrorAborts(i)
         ELSE ~isDone =>
                /\ ErrorRecorded(i)
                /\ state'[i].ended
                /\ promise' # Rejected(ErrorOf(i))
                /\ options.incremental = "none" => (promise' = Pending /\ ~isDone')]_vars

\* C23 amended: as stated, but the 'error' marks the state ended only if the
\* incremental pass made on recording it is inconclusive: when that pass
\* settles the comparison, endListener returns at once and ended stays as it
\* was.
C23_ErrorRecordedEndsUnlessSettled ==
  [][\A i \in Streams :
       EmitsError(i) =>
         IF options.abortOnError THEN ErrorAborts(i)
         ELSE ~isDone =>
                /\ ErrorRecorded(i)
                /\ IF RecordingConclusive(i)
                   THEN isDone' /\ state'[i].ended = state[i].ended
                   ELSE state'[i].ended
                /\ promise' # Rejected(ErrorOf(i))
                /\ options.incremental = "none" => (promise' = Pending /\ ~isDone')]_vars

\* C23 witness: without abortOnError and without incremental function, a
\* stream has ended by 'error', which is recorded, and the comparison runs.
C23_Witness ==
  /\ ~options.abortOnError /\ options.incremental = "none" /\ ~isDone
  /\ \E i \in Streams :
       /\ script[i] # DoubleEnd /\ ~HasNext(i)
       /\ state[i].ended
       /\ state[i].events = <<[name |-> "error", args |-> <<ErrorOf(i)>>]>>

\* C24: when a step other than the timer's settles the comparison while the
\* post-end timer is pending, the timer is cancelled (the only final compare
\* such a step can make is end()'s own), no timer is pending in a settled
\* comparison, and a settled comparison makes no final compare any more.
C24_TimerCancelledOnSettle ==
  /\ [](isDone => ~TimerPending)
  /\ [][(TimerPending /\ isDone' /\ ~PostEndCompare) =>
          /\ ~TimerPending'
          /\ lastRuns' # lastRuns => End]_vars
  /\ [][isDone => (isDone' /\ ~TimerPending' /\ lastRuns' = lastRuns)]_vars

\* C24 witness: without incremental function both streams have ended, which
\* scheduled the timer, and the comparison is settled though the timer's
\* compare has not run.
C24_Witness ==
  /\ options.incremental = "none"
  /\ ended = 2 /\ isDone /\ lastRuns = 0

\* Stream i emits an end event for the first time, the comparison running.
FirstEndSignal(i) ==
  /\ HasNext(i) /\ Tok(i) \in listeners[i].endl
  /\ ~isDone /\ ~state[i].ended
  /\ EmitEvent(i)

\* The promise settled with the conclusive result res.
VerdictOf(res) ==
  [st |-> IF res.kind = "value" THEN "fulfilled" ELSE "rejected", v |-> res.v]

\* C25: on the first end signal of a stream that reaches endListener with the
\* comparison unsettled, the state is marked ended and the incremental
\* function is run on the states so marked; if that run is conclusive the
\* comparison settles with its verdict, no timer is set and no final compare
\* is made, also when this is the second stream to end; if it is not, the
\* timer is set exactly when both streams have ended.
C25_IncrementalOnEnd ==
  [][\A i \in Streams :
       (options.incremental # "none" /\ FirstEndSignal(i)) =>
         \E Erec \in {callListener(Advance(i), listeners[i], i, Tok(i))} :
           ~Erec.isDone =>
             \E r \in {applyIncremental(options,
                          [Erec.state EXCEPT ![i].ended = TRUE])} :
               /\ state'[i].ended
               /\ ended' = ended + 1
               /\ r.res # None =>
                    /\ isDone'
                    /\ promise' = VerdictOf(r.res)
                    /\ state' = <<r.s1, r.s2>>
                    /\ ~TimerPending'
                    /\ lastRuns' = lastRuns
               /\ (r.res = None /\ ~isDone') => (TimerPending' <=> ended' = 2)]_vars

\* C25 witness: the comparison was settled by the incremental run of the
\* second stream's end: both states are ended, the last thing either stream
\* emitted is its 'end', and no final compare and no call of the caller
\* was made.
C25_Witness ==
  /\ options.incremental # "none" /\ ~usedCtl
  /\ isDone /\ ended = 2 /\ lastRuns = 0 /\ ~TimerPending
  /\ \A i \in Streams : pc[i] > 1 /\ script[i][pc[i] - 1] = "end"

\* An end event is among the events of state i.
EndEventIn(evs) == \E k \in 1..Len(evs) : evs[k].name \in endEvents

\* Stream i emits, the comparison running, an event that is both observed
\* and an end event, its state not yet ended.
ObservedEndSignal(i) ==
  /\ HasNext(i) /\ Tok(i) \in listeners[i].rec \cap listeners[i].endl
  /\ ~isDone /\ ~state[i].ended
  /\ EmitEvent(i)

\* C26 as stated: every state that is marked ended holds an end event in its
\* events, which is what the next compare gets.
C26_EndedSeesEndEvent ==
  \A i \in Streams : state[i].ended => EndEventIn(state[i].events)

\* C26 amended: a state that is marked ended has had its end event recorded,
\* and holds it in its events unless an incremental function that compares
\* the events has removed it; on the emit that ends the stream the record is
\* appended first, and if the incremental pass on recording it is
\* conclusive, the comparison settles with that verdict and ended stays
\* false, otherwise the state is marked ended.
C26_EndRecordedBeforeEnded ==
  /\ [](\A i \in Streams :
          state[i].ended =>
            /\ EndEventIn(Observed(i))
            /\ options.incremental # "both" => EndEventIn(state[i].events))
  /\ [][\A i \in Streams :
          ObservedEndSignal(i) =>
            /\ IF RecordingConclusive(i)
               THEN /\ isDone' /\ ~state'[i].ended
                    /\ state'[i].events = Append(state[i].events, NextRecord(i))
               ELSE /\ state'[i].ended
                    /\ options.incremental # "both" =>
                         state'[i].events = Append(state[i].events, NextRecord(i))]_vars

\* C26 witness: the final compare has been made on two ended states that
\* hold their end events.
C26_Witness ==
  /\ options.incremental = "none" /\ ~usedCtl
  /\ isDone /\ lastRuns = 1
  /\ \A i \in Streams : state[i].ended /\ EndEventIn(state[i].events)

\* The payloads stream i has produced (emitted as 'data', or pushed to its
\* buffer), in order.
Produced(i) == SelectSeq(Emitted(i), IsPayload)

\* The step makes the final compare from the timer, there being no
\* incremental function and no call of checkpoint() or end().
TerminalCompare ==
  /\ options.incremental = "none" /\ ~usedCtl
  /\ PostEndCompare

\* Stream i has emitted 'end'.
EndEmitted(i) == \E k \in 1..Len(Emitted(i)) : Emitted(i)[k] = "end"

Trimmed(i) == state[i].totalDataLen - Len0(state[i].data)

\* C28: the function made by makeIncremental being the only code that trims
\* (as incremental function and as final compare), as much data has been
\* trimmed from one state as from the other, in every reachable state.
C28_EqualTrimming == Trimmed(1) = Trimmed(2)

\* C28 witness: data has been trimmed and the two streams have been read to
\* different lengths.
C28_Witness ==
  /\ options.incremental # "none"
  /\ Trimmed(1) > 0
  /\ state[1].totalDataLen # state[2].totalDataLen

\* The rule of the scheduler on the calls of read() a handler has made: each
\* is made while unsettled on a stream whose state has not ended, on stream 1
\* exactly when state1 has not ended and state2 has ended or has not read
\* less than state1.
LeastRule(pulls) ==
  \A k \in 1..Len(pulls) :
    \E p \in {pulls[k]} :
      /\ ~p.isDone
      /\ ~p.ended[p.stream]
      /\ p.stream = 1 <=> (~p.ended[1] /\ (p.ended[2] \/ p.total[1] <= p.total[2]))

\* C29: under 'least' every call of read() follows the rule of the scheduler;
\* data is added only to a state that has not ended and only while the
\* comparison is unsettled; once both states have ended, or once the
\* comparison is settled, nothing is read and no wait for 'readable' is
\* registered.
C29_LeastScheduler ==
  [][options.readPolicy = "least" =>
       /\ Start => LeastRule(readNext(Eng).pulls)
       /\ \A i \in Streams :
            /\ Push(i) =>
                 LeastRule(emitReadable([Eng EXCEPT !.pc[i] = @ + 1, !.avail[i] = @ + 1],
                                        i, listeners[i].readable).pulls)
            /\ (HasNext(i) /\ EmitEvent(i)) =>
                 LeastRule(emit(Advance(i), i, Tok(i)).pulls)
            /\ state'[i].totalDataLen # state[i].totalDataLen =>
                 (~isDone /\ ~state[i].ended /\ state'[i].totalDataLen > state[i].totalDataLen)
       /\ (isDone \/ (state[1].ended /\ state[2].ended)) =>
            \A i \in Streams :
              /\ state'[i].totalDataLen = state[i].totalDataLen
              /\ avail'[i] >= avail[i]
              /\ listeners'[i].readable <= listeners[i].readable]_vars

\* C29 witness: under 'least', state1 having ended, stream 2 has been read
\* beyond what stream 1 gave, and the comparison runs.
C29_Witness ==
  /\ options.readPolicy = "least" /\ ~isDone
  /\ state[1].ended /\ ~state[2].ended
  /\ state[2].totalDataLen > state[1].totalDataLen
  /\ state[1].totalDataLen > 0

\* The registrations of readNext for 'readable', over both streams.
Waits == listeners[1].readable + listeners[2].readable

\* C30: under 'least' at most one wait for 'readable' is registered, over
\* both streams, in every reachable state.
C30_SingleWait == options.readPolicy = "least" => Waits <= 1

====
